---- MODULE Spec2Model ----
(***************************************************************************)
(* A model of the streaming response pipeline of TARSGemini:               *)
(*   core/streaming_pipeline.py  StreamingPipeline.process_query / stop    *)
(*   core/text_to_speech.py      TextToSpeech.speak_async / worker / stop  *)
(*   core/response_cache.py      ResponseCache                             *)
(*   core/gemini_client.py       GeminiClient (the generation service)     *)
(*   personality/tars_personality.py                                       *)
(* Text is a sequence of one-character strings.  Threads interleave at     *)
(* the granularity of the statements that touch shared state.              *)
(***************************************************************************)
EXTENDS Integers, Sequences, FiniteSets, TLC

\* ------------------------------------------------------------------ bounds
NumRuns == 2          \* process_query calls that may be active at once
MaxCalls == 2         \* process_query calls in one behaviour of Spec
MaxChunks == 1        \* chunks the generation service delivers per call in Spec
RunCalls == 2         \* process_query calls in one behaviour of RunSpec
RunChunks == 2        \* chunks the generation service delivers per call in RunSpec
RepeatCalls == 3      \* process_query calls in one behaviour of RepeatSpec
MaxStops == 1         \* pipeline.stop() calls in one behaviour
MaxCacheSize == 2     \* ResponseCache.max_size used by the model
MaxOps == 5           \* direct ResponseCache operations in one behaviour of CacheSpec
ConcCalls == 3        \* process_query calls in one behaviour of ConcurrentSpec
CallerCalls == 2      \* process_query calls in one behaviour of CallerSpec
MaxSpeakCalls == 3    \* speak_async calls in one behaviour of SpeechSpec
SegCalls == 1         \* process_query calls in one behaviour of SegmentSpec
SegChunks == 3        \* chunks the generation service delivers per call in SegmentSpec

Runs == 1..NumRuns

\* ------------------------------------------------------------------ text
Terminators == {".", "!", "?"}
Whitespace == {" "}

\* what the generation service may deliver as one chunk (chunk.text is truthy)
Chunks == { <<"a", ".">>, <<" ">>, <<"a">> }

\* chunks that make a sentence and an unterminated residual
SpeechChunkValues == { <<"a", ".">>, <<"a">> }

\* chunks that make a sentence and a residual with whitespace to strip
RunChunkValues == { <<"a", ".">>, <<" ", "a">> }

\* chunks that cut a text before, inside and after its sentence boundaries
SegChunkValues == { <<"a">>, <<".">>, <<" ">>, <<"a", ".">>, <<".", " ">>, <<".", "a">> }

\* the queries the caller submits
Queries == { <<"q">>, <<"r">> }

\* the humor values the controls panel delivers (honesty stays at its default)
HumorValues == {75, 20}

\* Python's None; no text equals it, since every text is made of one-character strings
NoneVal == <<"None">>

\* Python truthiness of an Optional[str]
Truthy(x) == x # NoneVal /\ x # <<>>

RECURSIVE LStrip(_)
LStrip(s) ==
  IF s = <<>> THEN <<>>
  ELSE IF Head(s) \in Whitespace THEN LStrip(Tail(s)) ELSE s

RECURSIVE RStrip(_)
RStrip(s) ==
  IF s = <<>> THEN <<>>
  ELSE IF s[Len(s)] \in Whitespace THEN RStrip(SubSeq(s, 1, Len(s) - 1)) ELSE s

\* str.strip()
Strip(s) == RStrip(LStrip(s))

LowerChar(c) ==
  CASE c = "Q" -> "q"
    [] c = "R" -> "r"
    [] c = "A" -> "a"
    [] OTHER -> c

\* str.lower()
Lower(s) == [i \in 1..Len(s) |-> LowerChar(s[i])]

RECURSIVE WsRunEnd(_, _)
\* the last index of the whitespace run that starts at index i of s
WsRunEnd(s, i) ==
  IF i < Len(s) /\ s[i + 1] \in Whitespace THEN WsRunEnd(s, i + 1) ELSE i

\* sentence_end_pattern matched at index i of s: the index of the last character of
\* the match, 0 when the pattern does not match there
MatchEnd(s, i) ==
  IF s[i] \notin Terminators THEN 0
  ELSE IF i < Len(s) /\ s[i + 1] \in Whitespace THEN WsRunEnd(s, i + 1)
  ELSE IF i = Len(s) THEN i
  ELSE 0

RECURSIVE ScanSentences(_, _, _, _)
\* the finditer loop of process_query: i scans s, last_end is the end of the last match
ScanSentences(s, i, last_end, acc) ==
  IF i > Len(s) THEN [sentences |-> acc, last_end |-> last_end]
  ELSE LET e == MatchEnd(s, i) IN
       IF e = 0 THEN ScanSentences(s, i + 1, last_end, acc)
       ELSE LET sentence == Strip(SubSeq(s, last_end + 1, e)) IN
            ScanSentences(s, e + 1, e,
                          IF sentence # <<>> THEN Append(acc, sentence) ELSE acc)

\* a chunk loop that never removes the sentences it found from the buffer
Segment_keep(buffer) ==
  [sentences |-> ScanSentences(buffer, 1, 0, <<>>).sentences, buffer |-> buffer]

\* one pass of the chunk loop over the sentence buffer: the sentences found and
\* the buffer that remains
Segment(buffer) ==
  LET r == ScanSentences(buffer, 1, 0, <<>>) IN
  [sentences |-> r.sentences,
   buffer |-> IF r.sentences # <<>>
              THEN SubSeq(buffer, r.last_end + 1, Len(buffer))
              ELSE buffer]

\* lines 82-120 for a text that arrives as a single chunk: the sentences of the one
\* pass over the buffer, then the residual if it is not blank
OneChunkUnits(text) ==
  LET seg == Segment(text) IN
  seg.sentences \o (IF Strip(seg.buffer) # <<>> THEN <<Strip(seg.buffer)>> ELSE <<>>)

\* ------------------------------------------------------------------ personality
Clamp(v) == IF v < 0 THEN 0 ELSE IF v > 100 THEN 100 ELSE v

DigitChar(d) ==
  CASE d = 0 -> "0" [] d = 1 -> "1" [] d = 2 -> "2" [] d = 3 -> "3" [] d = 4 -> "4"
    [] d = 5 -> "5" [] d = 6 -> "6" [] d = 7 -> "7" [] d = 8 -> "8" [] d = 9 -> "9"

RECURSIVE Digits(_)
\* str(n) of a natural number
Digits(n) == IF n < 10 THEN <<DigitChar(n)>> ELSE Append(Digits(n \div 10), DigitChar(n % 10))

\* f"{self.personality.humor}_{self.personality.honesty}"
Fingerprint(h, o) == Digits(h) \o <<"_">> \o Digits(o)

HumorBand(h) ==
  IF h >= 80 THEN "witty" ELSE IF h >= 60 THEN "good" ELSE IF h >= 40 THEN "subtle" ELSE "serious"

HonestyBand(o) ==
  IF o >= 90 THEN "brutal" ELSE IF o >= 70 THEN "mostly" ELSE IF o >= 50 THEN "balanced"
  ELSE "diplomatic"

\* get_system_instruction: the text is fixed by the two bands
SystemInstruction(h, o) == <<HumorBand(h), HonestyBand(o)>>

\* ------------------------------------------------------------------ cache
\* _hash_query without the fingerprint
HashQuery_unsalted(q, ph) == Strip(Lower(q))

\* _hash_query without the normalization of the query
HashQuery_raw(q, ph) == IF ph # NoneVal /\ ph # <<>> THEN q \o ph ELSE q

\* _hash_query: the md5 digest is taken as collision-free, so the key string stands for it
HashQuery(q, ph) ==
  LET key == Strip(Lower(q)) IN
  IF ph # NoneVal /\ ph # <<>> THEN key \o ph ELSE key

\* an OrderedDict is a sequence of [k, v], least recently used first
CacheIndex(c, k) ==
  IF \E i \in 1..Len(c) : c[i].k = k
  THEN CHOOSE i \in 1..Len(c) : c[i].k = k
  ELSE 0

CacheRemove(c, i) == SubSeq(c, 1, i - 1) \o SubSeq(c, i + 1, Len(c))

\* OrderedDict.move_to_end
MoveToEnd(c, k) ==
  LET i == CacheIndex(c, k) IN Append(CacheRemove(c, i), c[i])

\* ResponseCache.get that leaves the recency order alone
CacheGet_unpromoted(c, en, q, ph) ==
  LET k == HashQuery(q, ph) IN
  IF ~en THEN [val |-> NoneVal, cache |-> c]
  ELSE IF CacheIndex(c, k) # 0
       THEN [val |-> c[CacheIndex(c, k)].v, cache |-> c]
       ELSE [val |-> NoneVal, cache |-> c]

\* ResponseCache.get that does not look at the switch
CacheGet_always(c, en, q, ph) ==
  LET k == HashQuery(q, ph) IN
  IF CacheIndex(c, k) # 0
  THEN [val |-> c[CacheIndex(c, k)].v, cache |-> MoveToEnd(c, k)]
  ELSE [val |-> NoneVal, cache |-> c]

\* ResponseCache.get: the value returned and the cache afterwards
CacheGet(c, en, q, ph) ==
  LET k == HashQuery(q, ph) IN
  IF ~en THEN [val |-> NoneVal, cache |-> c]
  ELSE IF CacheIndex(c, k) # 0
       THEN [val |-> c[CacheIndex(c, k)].v, cache |-> MoveToEnd(c, k)]
       ELSE [val |-> NoneVal, cache |-> c]

\* ResponseCache.set: the cache afterwards
CacheSet(c, en, q, response, ph) ==
  LET k == HashQuery(q, ph)
      i == CacheIndex(c, k)
      put == Append(IF i # 0 THEN CacheRemove(c, i) ELSE c, [k |-> k, v |-> response])
  IN IF ~en THEN c
     ELSE IF Len(put) > MaxCacheSize THEN Tail(put) ELSE put

\* lines 76-80 of set: the entry is stored, or replaced, and moved to the end
CacheStore(c, q, response, ph) ==
  LET k == HashQuery(q, ph)
      i == CacheIndex(c, k)
  IN Append(IF i # 0 THEN CacheRemove(c, i) ELSE c, [k |-> k, v |-> response])

\* the inputs of the direct cache operations: queries that differ in case and in
\* boundary whitespace, a query that ends in a digit, two personality fingerprints
CacheQueries == { <<"q">>, <<" ", "Q">>, <<"q", "7">> }
CacheFingerprints == { Fingerprint(75, 90), Fingerprint(5, 90) }
Responses == { <<"x">>, <<"y">> }
CachePairs == CacheQueries \X CacheFingerprints
CacheKeys == { HashQuery(p[1], p[2]) : p \in CachePairs }

\* a (query, fingerprint) pair with the query trimmed and case-folded
NormPair(q, ph) == <<Strip(Lower(q)), ph>>
NormPairs == { NormPair(p[1], p[2]) : p \in CachePairs }

\* ------------------------------------------------------------------ state
VARIABLES
  humor, honesty,     \* TARSPersonality.humor / .honesty
  sysInstr,           \* GeminiClient._system_instruction
  cache, enabled,     \* ResponseCache.cache / .enabled
  is_processing,      \* StreamingPipeline.is_processing
  audio_queue,        \* TextToSpeech.audio_queue: tasks [id, text, cb]
  worker_running,     \* TextToSpeech._worker_running
  speech_thread,      \* TextToSpeech.speech_thread: 0 is None, else the worker
  wstate, witem,      \* each worker thread: where it is in its loop, the item it holds
  run,                \* each process_query call: its position and its locals
  calls,              \* process_query calls made so far
  spc, stops,         \* the stop() call: its position, and the calls made so far
  nextId,             \* tasks put on audio_queue so far
  rendered,           \* the task ids seen by the voice-rendering service, in call order
  obs,                \* what each process_query call has emitted and caused
  lastDone,           \* (cache key, response) of the last call that completed normally
  stopSnap, stopFlight, stopRendered, stopNextId,  \* the speech queue when stop() began
  max_size,           \* ResponseCache.max_size
  cpc,                \* a direct ResponseCache.set call: where it is
  cop,                \* the last direct ResponseCache operation: its inputs and result
  ops,                \* direct ResponseCache operations made so far
  useTime,            \* per cache key, the number of the last operation that used it
  writer,             \* per cache key, the (query, fingerprint) of the set that stored it
  written,            \* per (normalized query, fingerprint), the response set and not
                      \* since evicted or cleared
  atDisable, offOps,  \* the cache when it was disabled, the get/set calls made since
  cbTasks,            \* the ids of the tasks put on audio_queue with a callback
  called,             \* the ids of the tasks whose callback was invoked, in call order
  discarded,          \* the ids of the tasks stop() took off audio_queue
  failed              \* the ids of the tasks whose rendering or playback failed

vars == <<humor, honesty, sysInstr, cache, enabled, is_processing, audio_queue,
          worker_running, speech_thread, wstate, witem, run, calls, spc, stops,
          nextId, rendered, obs, lastDone, stopSnap, stopFlight, stopRendered,
          stopNextId, max_size, cpc, cop, ops, useTime, writer, written, atDisable, offOps,
          cbTasks, called, discarded, failed>>

persVars == <<humor, honesty, sysInstr>>
cacheVars == <<cache, enabled>>
ttsVars == <<audio_queue, worker_running, speech_thread, wstate, witem, nextId, rendered>>
stopVars == <<spc, stops, stopSnap, stopFlight, stopRendered, stopNextId>>
cacheOpVars == <<max_size, cpc, cop, ops, useTime, writer, written, atDisable, offOps>>
queueObs == <<cbTasks, called, discarded, failed>>

NoTask == [id |-> 0, text |-> <<>>, cb |-> 0]

IdleRun ==
  [pc |-> "idle", call |-> 0, query |-> <<>>, phash |-> <<>>, cached |-> NoneVal,
   sbuf |-> <<>>, full |-> <<>>, sents |-> <<>>, n |-> 0,
   text |-> <<>>, cb |-> 0, ret |-> "idle"]

NoObs ==
  [found |-> FALSE, expect |-> NoneVal, prior |-> FALSE,
   yielded |-> <<>>, sentenced |-> <<>>, enq |-> <<>>,
   complete |-> 0, gen |-> 0, genFailed |-> FALSE,
   setDone |-> FALSE, setEnabled |-> FALSE, setChanged |-> FALSE, touched |-> FALSE,
   outcome |-> "none", mark |-> <<>>, instr |-> <<>>, cacheError |-> FALSE]

NoOp ==
  [name |-> "none", q |-> <<>>, ph |-> <<>>, val |-> NoneVal, before |-> <<>>,
   wasEnabled |-> TRUE, prev |-> NoneVal, shield |-> NoneVal, evicted |-> NoneVal]

Init ==
  /\ humor = 75 /\ honesty = 90
  /\ sysInstr = SystemInstruction(75, 90)
  /\ cache = <<>> /\ enabled = TRUE
  /\ is_processing = FALSE
  /\ audio_queue = <<>>
  /\ worker_running = FALSE
  /\ speech_thread = 0
  /\ wstate = [w \in Runs |-> "unborn"]
  /\ witem = [w \in Runs |-> NoTask]
  /\ run = [r \in Runs |-> IdleRun]
  /\ calls = 0
  /\ spc = "idle" /\ stops = 0
  /\ nextId = 0
  /\ rendered = <<>>
  /\ obs = [r \in Runs |-> NoObs]
  /\ lastDone = NoneVal
  /\ stopSnap = {} /\ stopFlight = {} /\ stopRendered = 0 /\ stopNextId = 0
  /\ max_size = MaxCacheSize
  /\ cpc = "idle"
  /\ cop = NoOp
  /\ ops = 0
  /\ useTime = [k \in CacheKeys |-> 0]
  /\ writer = [k \in CacheKeys |-> NoneVal]
  /\ written = [p \in NormPairs |-> NoneVal]
  /\ atDisable = <<>> /\ offOps = 0
  /\ cbTasks = {} /\ called = <<>> /\ discarded = {} /\ failed = {}

\* ------------------------------------------------------------------ process_query
\* where a call goes on when speak_async returns
AfterSpeak(r) ==
  IF run[r].ret = "emit" /\ run[r].sents = <<>> THEN "stream" ELSE run[r].ret

\* lines 51-60: is_processing, the fingerprint, the cache lookup and the branch on it
process_query_start(r, q, limit) ==
  /\ run[r].pc \in {"idle", "done"}
  /\ calls < limit
  /\ LET ph == Fingerprint(humor, honesty)
         g == CacheGet(cache, enabled, q, ph)
         k == HashQuery(q, ph)
     IN /\ calls' = calls + 1
        /\ is_processing' = TRUE
        /\ cache' = g.cache
        /\ run' = [run EXCEPT ![r] =
                     [IdleRun EXCEPT !.pc = IF Truthy(g.val) THEN "hit" ELSE "miss",
                                     !.call = calls + 1, !.query = q, !.phash = ph,
                                     !.cached = g.val]]
        /\ obs' = [obs EXCEPT ![r] =
                     [NoObs EXCEPT !.found = (enabled /\ CacheIndex(cache, k) # 0),
                                   !.expect = g.val,
                                   !.prior = (g.val # NoneVal /\ lastDone = <<k, g.val>>),
                                   !.touched = (g.cache # cache)]]
  /\ UNCHANGED <<persVars, enabled, ttsVars, stopVars, cacheOpVars, queueObs, lastDone>>

\* lines 62-64: the cached response goes to on_sentence and to speak_async
process_query_hit(r) ==
  /\ run[r].pc = "hit"
  /\ run' = [run EXCEPT ![r].pc = "spk", ![r].text = run[r].cached,
                        ![r].cb = run[r].call, ![r].ret = "hit_ret"]
  /\ obs' = [obs EXCEPT ![r].sentenced = Append(@, run[r].cached)]
  /\ UNCHANGED <<persVars, cacheVars, is_processing, ttsVars, calls, stopVars, cacheOpVars, queueObs, lastDone>>

\* lines 65-67: the flag clears, the cached response is yielded, the call returns
process_query_hit_yield(r) ==
  /\ run[r].pc = "hit_ret"
  /\ is_processing' = FALSE
  /\ run' = [run EXCEPT ![r].pc = "done"]
  /\ obs' = [obs EXCEPT ![r].yielded = Append(@, run[r].cached), ![r].outcome = "hit"]
  /\ UNCHANGED <<persVars, cacheVars, ttsVars, calls, stopVars, cacheOpVars, queueObs, lastDone>>

\* lines 70-71 with GeminiClient.update_system_instruction
process_query_update_instruction(r) ==
  /\ run[r].pc = "miss"
  /\ sysInstr' = SystemInstruction(humor, honesty)
  /\ run' = [run EXCEPT ![r].pc = "stream"]
  /\ obs' = [obs EXCEPT ![r].gen = @ + 1]
  /\ UNCHANGED <<humor, honesty, cacheVars, is_processing, ttsVars, calls, stopVars, cacheOpVars, queueObs,
                 lastDone>>

\* the generate_stream call is counted when the first item is asked of it
GenCount(r) == IF run[r].n = 0 THEN obs[r].gen + 1 ELSE obs[r].gen

\* gemini_client.py line 82: the request is made, with the instruction the model holds
\* then, when the first item is asked of generate_stream
GenInstr(r) == IF run[r].n = 0 THEN sysInstr ELSE obs[r].instr

\* lines 82-100: a chunk arrives, is accumulated and the buffer is segmented
generate_stream_chunk(r, chunk, most) ==
  /\ run[r].pc = "stream"
  /\ run[r].n < most
  /\ LET seg == Segment(run[r].sbuf \o chunk) IN
     run' = [run EXCEPT ![r].full = @ \o chunk,
                        ![r].sbuf = seg.buffer,
                        ![r].sents = seg.sentences,
                        ![r].n = @ + 1,
                        ![r].pc = IF seg.sentences # <<>> THEN "emit" ELSE "stream"]
  /\ obs' = [obs EXCEPT ![r].gen = GenCount(r), ![r].instr = GenInstr(r)]
  /\ UNCHANGED <<persVars, cacheVars, is_processing, ttsVars, calls, stopVars, cacheOpVars, queueObs, lastDone>>

\* line 82: the chunk source is exhausted
generate_stream_end(r) ==
  /\ run[r].pc = "stream"
  /\ run' = [run EXCEPT ![r].pc = "flush"]
  /\ obs' = [obs EXCEPT ![r].gen = GenCount(r), ![r].instr = GenInstr(r)]
  /\ UNCHANGED <<persVars, cacheVars, is_processing, ttsVars, calls, stopVars, cacheOpVars, queueObs, lastDone>>

\* gemini_client.py lines 98-99: the generation service fails; control reaches line 131
generate_stream_error(r) ==
  /\ run[r].pc = "stream"
  /\ run' = [run EXCEPT ![r].pc = "except"]
  /\ obs' = [obs EXCEPT ![r].gen = GenCount(r), ![r].genFailed = TRUE,
                        ![r].instr = GenInstr(r)]
  /\ UNCHANGED <<persVars, cacheVars, is_processing, ttsVars, calls, stopVars, cacheOpVars, queueObs, lastDone>>

\* line 107: the next complete sentence is yielded to the caller
process_query_yield(r) ==
  /\ run[r].pc = "emit"
  /\ run' = [run EXCEPT ![r].pc = "emitted"]
  /\ obs' = [obs EXCEPT ![r].yielded = Append(@, Head(run[r].sents))]
  /\ UNCHANGED <<persVars, cacheVars, is_processing, ttsVars, calls, stopVars, cacheOpVars, queueObs, lastDone>>

\* lines 108-112: on_sentence, then the call of speak_async
process_query_on_sentence(r) ==
  /\ run[r].pc = "emitted"
  /\ run' = [run EXCEPT ![r].pc = "spk", ![r].text = Head(run[r].sents), ![r].cb = 0,
                        ![r].ret = "emit", ![r].sents = Tail(@)]
  /\ obs' = [obs EXCEPT ![r].sentenced = Append(@, Head(run[r].sents))]
  /\ UNCHANGED <<persVars, cacheVars, is_processing, ttsVars, calls, stopVars, cacheOpVars, queueObs, lastDone>>

\* lines 115-117: the residual buffer, if it is not blank, is yielded
process_query_flush(r) ==
  /\ run[r].pc = "flush"
  /\ IF Strip(run[r].sbuf) # <<>>
     THEN /\ run' = [run EXCEPT ![r].pc = "flushed"]
          /\ obs' = [obs EXCEPT ![r].yielded = Append(@, Strip(run[r].sbuf))]
     ELSE /\ run' = [run EXCEPT ![r].pc = "cache_set"]
          /\ obs' = obs
  /\ UNCHANGED <<persVars, cacheVars, is_processing, ttsVars, calls, stopVars, cacheOpVars, queueObs, lastDone>>

\* lines 118-120: on_sentence and speak_async for the residual
process_query_flush_sentence(r) ==
  /\ run[r].pc = "flushed"
  /\ run' = [run EXCEPT ![r].pc = "spk", ![r].text = Strip(run[r].sbuf), ![r].cb = 0,
                        ![r].ret = "cache_set"]
  /\ obs' = [obs EXCEPT ![r].sentenced = Append(@, Strip(run[r].sbuf))]
  /\ UNCHANGED <<persVars, cacheVars, is_processing, ttsVars, calls, stopVars, cacheOpVars, queueObs, lastDone>>

\* process_query_cache_set with the fingerprint read again at the time of the write
process_query_cache_set_refreshed(r) ==
  /\ run[r].pc = "cache_set"
  /\ cache' = CacheSet(cache, enabled, run[r].query, run[r].full,
                       Fingerprint(humor, honesty))
  /\ run' = [run EXCEPT ![r].pc = "complete"]
  /\ obs' = [obs EXCEPT
               ![r].setDone = TRUE,
               ![r].setEnabled = enabled,
               ![r].setChanged = (cache' # cache),
               ![r].touched = (@ \/ cache' # cache)]
  /\ UNCHANGED <<persVars, enabled, is_processing, ttsVars, calls, stopVars, cacheOpVars, queueObs, lastDone>>

\* line 123: the full response is cached under the fingerprint taken at line 57
process_query_cache_set(r) ==
  /\ run[r].pc = "cache_set"
  /\ cache' = CacheSet(cache, enabled, run[r].query, run[r].full, run[r].phash)
  /\ run' = [run EXCEPT ![r].pc = "complete"]
  /\ obs' = [obs EXCEPT
               ![r].setDone = TRUE,
               ![r].setEnabled = enabled,
               ![r].setChanged = (cache' # cache),
               ![r].touched = (@ \/ cache' # cache)]
  /\ UNCHANGED <<persVars, enabled, is_processing, ttsVars, calls, stopVars, cacheOpVars, queueObs, lastDone>>

\* lines 128-129 and 138-139: on_complete, then the flag clears and the call ends
process_query_on_complete(r) ==
  /\ run[r].pc = "complete"
  /\ is_processing' = FALSE
  /\ run' = [run EXCEPT ![r].pc = "done"]
  /\ obs' = [obs EXCEPT ![r].complete = @ + 1, ![r].outcome = "complete"]
  /\ lastDone' = <<HashQuery(run[r].query, run[r].phash), run[r].full>>
  /\ UNCHANGED <<persVars, cacheVars, ttsVars, calls, stopVars, cacheOpVars, queueObs>>

\* process_query_except without the on_complete call
process_query_except_silent(r) ==
  /\ run[r].pc = "except"
  /\ run' = [run EXCEPT ![r].pc = "raise"]
  /\ UNCHANGED <<persVars, cacheVars, is_processing, ttsVars, calls, stopVars, cacheOpVars, queueObs, lastDone,
                 obs>>

\* lines 131-135: the handler reports the error and calls on_complete
process_query_except(r) ==
  /\ run[r].pc = "except"
  /\ run' = [run EXCEPT ![r].pc = "raise"]
  /\ obs' = [obs EXCEPT ![r].complete = @ + 1]
  /\ UNCHANGED <<persVars, cacheVars, is_processing, ttsVars, calls, stopVars, cacheOpVars, queueObs, lastDone>>

\* lines 136-139: the exception is raised again to the caller; the flag clears
process_query_raise(r) ==
  /\ run[r].pc = "raise"
  /\ is_processing' = FALSE
  /\ run' = [run EXCEPT ![r].pc = "done"]
  /\ obs' = [obs EXCEPT ![r].outcome = "error"]
  /\ UNCHANGED <<persVars, cacheVars, ttsVars, calls, stopVars, cacheOpVars, queueObs, lastDone>>

\* ------------------------------------------------------------------ cache statements
\* The statements of ResponseCache.get and ResponseCache.set as process_query runs
\* them, one at a time, so that the statements of two calls can interleave.
ConcQueries == { <<"q">>, <<"q", "7">> }

CacheKey(r) == HashQuery(run[r].query, run[r].phash)

\* streaming_pipeline.py lines 51-58 and response_cache.py lines 52-55: the flag, the
\* fingerprint, the call of get, its test of the switch and the key
process_query_begin(r, q, limit) ==
  /\ run[r].pc \in {"idle", "done"}
  /\ calls < limit
  /\ calls' = calls + 1
  /\ is_processing' = TRUE
  /\ run' = [run EXCEPT ![r] =
               [IdleRun EXCEPT !.pc = IF enabled THEN "get_contains" ELSE "miss",
                               !.call = calls + 1, !.query = q,
                               !.phash = Fingerprint(humor, honesty)]]
  /\ obs' = [obs EXCEPT ![r] = NoObs]
  /\ UNCHANGED <<persVars, cacheVars, ttsVars, stopVars, cacheOpVars, queueObs, lastDone>>

\* response_cache.py line 57 (and 62): is the key in the cache
get_contains(r) ==
  /\ run[r].pc = "get_contains"
  /\ LET present == CacheIndex(cache, CacheKey(r)) # 0 IN
     /\ run' = [run EXCEPT ![r].pc = IF present THEN "get_move_to_end" ELSE "miss"]
     /\ obs' = [obs EXCEPT ![r].found = present]
  /\ UNCHANGED <<persVars, cacheVars, is_processing, ttsVars, calls, stopVars, cacheOpVars,
                 queueObs, lastDone>>

\* response_cache.py line 59: move_to_end, a KeyError if the key is no longer there;
\* the error leaves process_query at line 58, before its try
get_move_to_end(r) ==
  /\ run[r].pc = "get_move_to_end"
  /\ IF CacheIndex(cache, CacheKey(r)) # 0
     THEN /\ cache' = MoveToEnd(cache, CacheKey(r))
          /\ run' = [run EXCEPT ![r].pc = "get_read"]
          /\ obs' = [obs EXCEPT ![r].touched = (cache' # cache)]
     ELSE /\ cache' = cache
          /\ run' = [run EXCEPT ![r].pc = "done"]
          /\ obs' = [obs EXCEPT ![r].cacheError = TRUE, ![r].outcome = "cache_error"]
  /\ UNCHANGED <<persVars, enabled, is_processing, ttsVars, calls, stopVars, cacheOpVars,
                 queueObs, lastDone>>

\* response_cache.py line 60 and streaming_pipeline.py line 60: the entry is read, a
\* KeyError if the key is no longer there, and process_query branches on the value
get_read(r) ==
  /\ run[r].pc = "get_read"
  /\ LET i == CacheIndex(cache, CacheKey(r)) IN
     IF i # 0
     THEN /\ run' = [run EXCEPT ![r].cached = cache[i].v,
                                ![r].pc = IF Truthy(cache[i].v) THEN "hit" ELSE "miss"]
          /\ obs' = [obs EXCEPT ![r].expect = written[NormPair(run[r].query, run[r].phash)]]
     ELSE /\ run' = [run EXCEPT ![r].pc = "done"]
          /\ obs' = [obs EXCEPT ![r].cacheError = TRUE, ![r].outcome = "cache_error"]
  /\ UNCHANGED <<persVars, cacheVars, is_processing, ttsVars, calls, stopVars, cacheOpVars,
                 queueObs, lastDone>>

\* streaming_pipeline.py line 123 and response_cache.py lines 73-79: nothing when the
\* cache is disabled, else the entry is assigned; a new key goes to the end, a key
\* that is there keeps its place
set_assign(r) ==
  /\ run[r].pc = "cache_set"
  /\ LET k == CacheKey(r)
         i == CacheIndex(cache, k)
     IN IF ~enabled
        THEN /\ run' = [run EXCEPT ![r].pc = "complete"]
             /\ obs' = [obs EXCEPT ![r].setDone = TRUE]
             /\ UNCHANGED <<cache, written>>
        ELSE /\ cache' = IF i # 0 THEN [cache EXCEPT ![i].v = run[r].full]
                         ELSE Append(cache, [k |-> k, v |-> run[r].full])
             /\ written' = [written EXCEPT ![NormPair(run[r].query, run[r].phash)] =
                                             run[r].full]
             /\ run' = [run EXCEPT ![r].pc = "set_move_to_end"]
             /\ obs' = [obs EXCEPT ![r].setEnabled = TRUE, ![r].setChanged = (cache' # cache),
                                   ![r].touched = (@ \/ cache' # cache)]
  /\ UNCHANGED <<persVars, enabled, is_processing, ttsVars, calls, stopVars, max_size, cpc,
                 cop, ops, useTime, writer, atDisable, offOps, queueObs, lastDone>>

\* response_cache.py line 80: move_to_end, a KeyError if the key is no longer there;
\* the error is caught at streaming_pipeline.py line 131
set_move_to_end(r) ==
  /\ run[r].pc = "set_move_to_end"
  /\ IF CacheIndex(cache, CacheKey(r)) # 0
     THEN /\ cache' = MoveToEnd(cache, CacheKey(r))
          /\ run' = [run EXCEPT ![r].pc = "set_len"]
          /\ obs' = obs
     ELSE /\ cache' = cache
          /\ run' = [run EXCEPT ![r].pc = "except"]
          /\ obs' = [obs EXCEPT ![r].cacheError = TRUE]
  /\ UNCHANGED <<persVars, enabled, is_processing, ttsVars, calls, stopVars, cacheOpVars,
                 queueObs, lastDone>>

\* response_cache.py line 83: is the cache over its limit
set_len(r) ==
  /\ run[r].pc = "set_len"
  /\ run' = [run EXCEPT ![r].pc = IF Len(cache) > max_size THEN "set_popitem"
                                  ELSE "complete"]
  /\ obs' = [obs EXCEPT ![r].setDone = (@ \/ Len(cache) <= max_size)]
  /\ UNCHANGED <<persVars, cacheVars, is_processing, ttsVars, calls, stopVars, cacheOpVars,
                 queueObs, lastDone>>

\* response_cache.py line 84: popitem(last=False), a KeyError if the cache is empty
set_popitem(r) ==
  /\ run[r].pc = "set_popitem"
  /\ IF cache # <<>>
     THEN /\ cache' = Tail(cache)
          /\ written' = [p \in DOMAIN written |->
                           IF HashQuery(p[1], p[2]) = Head(cache).k THEN NoneVal
                           ELSE written[p]]
          /\ run' = [run EXCEPT ![r].pc = "complete"]
          /\ obs' = [obs EXCEPT ![r].setDone = TRUE]
     ELSE /\ UNCHANGED <<cache, written>>
          /\ run' = [run EXCEPT ![r].pc = "except"]
          /\ obs' = [obs EXCEPT ![r].cacheError = TRUE]
  /\ UNCHANGED <<persVars, enabled, is_processing, ttsVars, calls, stopVars, max_size, cpc,
                 cop, ops, useTime, writer, atDisable, offOps, queueObs, lastDone>>

\* ------------------------------------------------------------------ the caller
\* lines 51-54: the flag is set and on_start raises; the exception reaches the caller
process_query_on_start_raise(r, q, limit) ==
  /\ run[r].pc \in {"idle", "done"}
  /\ calls < limit
  /\ calls' = calls + 1
  /\ is_processing' = TRUE
  /\ run' = [run EXCEPT ![r] = [IdleRun EXCEPT !.pc = "done", !.call = calls + 1,
                                               !.query = q]]
  /\ obs' = [obs EXCEPT ![r] = [NoObs EXCEPT !.outcome = "callback_error"]]
  /\ UNCHANGED <<persVars, cacheVars, ttsVars, stopVars, cacheOpVars, queueObs, lastDone>>

\* lines 62-63: on a cache hit on_sentence raises; the exception reaches the caller
process_query_hit_raise(r) ==
  /\ run[r].pc = "hit"
  /\ run' = [run EXCEPT ![r].pc = "done"]
  /\ obs' = [obs EXCEPT ![r].sentenced = Append(@, run[r].cached),
                        ![r].outcome = "callback_error"]
  /\ UNCHANGED <<persVars, cacheVars, is_processing, ttsVars, calls, stopVars, cacheOpVars,
                 queueObs, lastDone>>

\* lines 108-109 and 118-119: on_sentence raises inside the try; control reaches line 131
process_query_on_sentence_raise(r) ==
  /\ run[r].pc \in {"emitted", "flushed"}
  /\ run' = [run EXCEPT ![r].pc = "except"]
  /\ obs' = [obs EXCEPT ![r].sentenced =
                 Append(@, IF run[r].pc = "emitted" THEN Head(run[r].sents)
                           ELSE Strip(run[r].sbuf))]
  /\ UNCHANGED <<persVars, cacheVars, is_processing, ttsVars, calls, stopVars, cacheOpVars,
                 queueObs, lastDone>>

\* lines 128-129: on_complete raises inside the try; control reaches line 131
process_query_on_complete_raise(r) ==
  /\ run[r].pc = "complete"
  /\ run' = [run EXCEPT ![r].pc = "except"]
  /\ obs' = [obs EXCEPT ![r].complete = @ + 1]
  /\ UNCHANGED <<persVars, cacheVars, is_processing, ttsVars, calls, stopVars, cacheOpVars,
                 queueObs, lastDone>>

\* lines 107, 117 and 138-139: the caller closes the sequence while the call is suspended
\* at a yield; GeneratorExit passes the except clause and the finally clause runs
abandon(r) ==
  /\ run[r].pc \in {"emitted", "flushed"}
  /\ is_processing' = FALSE
  /\ run' = [run EXCEPT ![r].pc = "done"]
  /\ obs' = [obs EXCEPT ![r].outcome = "abandoned"]
  /\ UNCHANGED <<persVars, cacheVars, ttsVars, calls, stopVars, cacheOpVars, queueObs,
                 lastDone>>

\* ------------------------------------------------------------------ speech queue
Alive(w) == wstate[w] # "unborn"

\* line 213: must speak_async start a worker
NeedWorker ==
  \/ ~worker_running
  \/ speech_thread = 0
  \/ ~Alive(speech_thread)

\* lines 203-213: blank text returns at once; else the test whether a worker runs
speak_async_check(r) ==
  /\ run[r].pc = "spk"
  /\ run' = [run EXCEPT ![r].pc = IF Strip(run[r].text) = <<>> THEN AfterSpeak(r)
                                  ELSE IF NeedWorker THEN "spk_start"
                                  ELSE "spk_put"]
  /\ UNCHANGED <<persVars, cacheVars, is_processing, ttsVars, calls, stopVars, cacheOpVars, queueObs, obs,
                 lastDone>>

\* lines 214-221: the flag is set and a worker thread is created and started
speak_async_start(r) ==
  /\ run[r].pc = "spk_start"
  /\ ~Alive(r)
  /\ worker_running' = TRUE
  /\ speech_thread' = r
  /\ wstate' = [wstate EXCEPT ![r] = "idle"]
  /\ run' = [run EXCEPT ![r].pc = "spk_put"]
  /\ UNCHANGED <<persVars, cacheVars, is_processing, audio_queue, witem, nextId, rendered,
                 calls, stopVars, cacheOpVars, queueObs, obs, lastDone>>

\* line 224: the task is put on the queue
speak_async_put(r) ==
  /\ run[r].pc = "spk_put"
  /\ nextId' = nextId + 1
  /\ audio_queue' = Append(audio_queue,
                           [id |-> nextId + 1, text |-> Strip(run[r].text), cb |-> run[r].cb])
  /\ run' = [run EXCEPT ![r].pc = AfterSpeak(r)]
  /\ obs' = [obs EXCEPT ![r].enq = Append(@, Strip(run[r].text))]
  /\ cbTasks' = IF run[r].cb # 0 THEN cbTasks \cup {nextId + 1} ELSE cbTasks
  /\ UNCHANGED <<persVars, cacheVars, is_processing, worker_running, speech_thread, wstate,
                 witem, rendered, calls, stopVars, cacheOpVars, called, discarded, failed,
                 lastDone>>

\* lines 168-181: the worker takes the next item off the queue
worker_get(w) ==
  /\ wstate[w] = "idle"
  /\ audio_queue # <<>>
  /\ audio_queue' = Tail(audio_queue)
  /\ witem' = [witem EXCEPT ![w] = Head(audio_queue)]
  /\ wstate' = [wstate EXCEPT ![w] = "got"]
  /\ UNCHANGED <<persVars, cacheVars, is_processing, worker_running, speech_thread, nextId,
                 rendered, run, calls, stopVars, cacheOpVars, queueObs, obs, lastDone>>

\* lines 183 and 99-100: speak() hands the text to the voice-rendering service
worker_speak(w) ==
  /\ wstate[w] = "got"
  /\ wstate' = [wstate EXCEPT ![w] = "speaking"]
  /\ rendered' = Append(rendered, witem[w].id)
  /\ UNCHANGED <<persVars, cacheVars, is_processing, audio_queue, worker_running,
                 speech_thread, witem, nextId, run, calls, stopVars, cacheOpVars, queueObs, obs, lastDone>>

\* the call, if it is still the current one of its slot, that a callback belongs to
CallbackOf(cb) == {r \in Runs : cb # 0 /\ run[r].call = cb}

\* lines 101-112, 135-136 and 185: playback ends, the callback runs, task_done
worker_done(w) ==
  /\ wstate[w] = "speaking"
  /\ wstate' = [wstate EXCEPT ![w] = "idle"]
  /\ witem' = [witem EXCEPT ![w] = NoTask]
  /\ obs' = [r \in Runs |->
               IF r \in CallbackOf(witem[w].cb)
               THEN [obs[r] EXCEPT !.complete = @ + 1]
               ELSE obs[r]]
  /\ called' = IF witem[w].cb # 0 THEN Append(called, witem[w].id) ELSE called
  /\ UNCHANGED <<persVars, cacheVars, is_processing, audio_queue, worker_running,
                 speech_thread, nextId, rendered, run, calls, stopVars, cacheOpVars,
                 cbTasks, discarded, failed, lastDone>>

\* worker_speak_fail without the callback
worker_speak_fail_silent(w) ==
  /\ wstate[w] = "got"
  /\ wstate' = [wstate EXCEPT ![w] = "idle"]
  /\ witem' = [witem EXCEPT ![w] = NoTask]
  /\ rendered' = Append(rendered, witem[w].id)
  /\ failed' = failed \cup {witem[w].id}
  /\ UNCHANGED <<persVars, cacheVars, is_processing, audio_queue, worker_running,
                 speech_thread, nextId, run, calls, stopVars, cacheOpVars,
                 cbTasks, called, discarded, obs, lastDone>>

\* speak lines 100 and 103-112: the voice-rendering service returns no audio or raises;
\* the failure is reported, the callback runs, and the worker goes on (line 185)
worker_speak_fail(w) ==
  /\ wstate[w] = "got"
  /\ wstate' = [wstate EXCEPT ![w] = "idle"]
  /\ witem' = [witem EXCEPT ![w] = NoTask]
  /\ rendered' = Append(rendered, witem[w].id)
  /\ failed' = failed \cup {witem[w].id}
  /\ obs' = [r \in Runs |->
               IF r \in CallbackOf(witem[w].cb)
               THEN [obs[r] EXCEPT !.complete = @ + 1]
               ELSE obs[r]]
  /\ called' = IF witem[w].cb # 0 THEN Append(called, witem[w].id) ELSE called
  /\ UNCHANGED <<persVars, cacheVars, is_processing, audio_queue, worker_running,
                 speech_thread, nextId, run, calls, stopVars, cacheOpVars,
                 cbTasks, discarded, lastDone>>

\* worker_play_fail that lets the failure end the worker loop
worker_play_fail_fatal(w) ==
  /\ wstate[w] = "speaking"
  /\ wstate' = [wstate EXCEPT ![w] = "stopped"]
  /\ witem' = [witem EXCEPT ![w] = NoTask]
  /\ failed' = failed \cup {witem[w].id}
  /\ UNCHANGED <<persVars, cacheVars, is_processing, audio_queue, worker_running,
                 speech_thread, nextId, rendered, run, calls, stopVars, cacheOpVars,
                 cbTasks, called, discarded, obs, lastDone>>

\* _play_audio_file lines 122-127 and 157-161 (or lines 137-148, then speak lines
\* 107-112): playback raises; the failure is reported and the callback runs
worker_play_fail(w) ==
  /\ wstate[w] = "speaking"
  /\ wstate' = [wstate EXCEPT ![w] = "idle"]
  /\ witem' = [witem EXCEPT ![w] = NoTask]
  /\ failed' = failed \cup {witem[w].id}
  /\ obs' = [r \in Runs |->
               IF r \in CallbackOf(witem[w].cb)
               THEN [obs[r] EXCEPT !.complete = @ + 1]
               ELSE obs[r]]
  /\ called' = IF witem[w].cb # 0 THEN Append(called, witem[w].id) ELSE called
  /\ UNCHANGED <<persVars, cacheVars, is_processing, audio_queue, worker_running,
                 speech_thread, nextId, rendered, run, calls, stopVars, cacheOpVars,
                 cbTasks, discarded, lastDone>>

\* the texts a direct caller hands to speak_async
SpeakTexts == { <<"a">>, <<" ">> }

\* lines 195-202: speak_async is called directly, with or without a callback
speak_call(r, text, withCallback) ==
  /\ run[r].pc = "idle"
  /\ calls < MaxSpeakCalls
  /\ calls' = calls + 1
  /\ run' = [run EXCEPT ![r] =
               [IdleRun EXCEPT !.pc = "spk", !.call = calls + 1, !.text = text,
                               !.cb = IF withCallback THEN calls + 1 ELSE 0]]
  /\ obs' = [obs EXCEPT ![r] = NoObs]
  /\ UNCHANGED <<persVars, cacheVars, is_processing, ttsVars, stopVars, cacheOpVars,
                 queueObs, lastDone>>

\* ------------------------------------------------------------------ stop
InFlight == {witem[w].id : w \in {x \in Runs : wstate[x] \in {"got", "speaking"}}}

QueuedIds == {audio_queue[i].id : i \in 1..Len(audio_queue)}

\* streaming_pipeline.py line 143 and text_to_speech.py lines 228-231: stop() begins
stop_begin ==
  /\ spc = "idle"
  /\ stops < MaxStops
  /\ stops' = stops + 1
  /\ spc' = "check"
  /\ stopSnap' = QueuedIds
  /\ stopFlight' = InFlight
  /\ stopRendered' = Len(rendered)
  /\ stopNextId' = nextId
  /\ UNCHANGED <<persVars, cacheVars, is_processing, ttsVars, run, calls, obs, lastDone,
                 cacheOpVars, queueObs>>

\* line 232: the loop test
stop_check ==
  /\ spc = "check"
  /\ spc' = IF audio_queue = <<>> THEN "end" ELSE "get"
  /\ UNCHANGED <<persVars, cacheVars, is_processing, ttsVars, run, calls, obs, lastDone,
                 stops, stopSnap, stopFlight, stopRendered, stopNextId,
                 cacheOpVars, queueObs>>

\* stop_get that counts the item as discarded and leaves it on the queue
stop_get_peek ==
  /\ spc = "get"
  /\ IF audio_queue # <<>>
     THEN /\ discarded' = discarded \cup {Head(audio_queue).id}
          /\ spc' = "end"
     ELSE /\ discarded' = discarded
          /\ spc' = "end"
  /\ UNCHANGED <<persVars, cacheVars, is_processing, ttsVars, run, calls, obs, lastDone,
                 stops, stopSnap, stopFlight, stopRendered, stopNextId,
                 cacheOpVars, cbTasks, called, failed>>

\* lines 233-238: get_nowait discards an item, or finds the queue empty and breaks
stop_get ==
  /\ spc = "get"
  /\ IF audio_queue # <<>>
     THEN /\ audio_queue' = Tail(audio_queue)
          /\ discarded' = discarded \cup {Head(audio_queue).id}
          /\ spc' = "check"
     ELSE /\ audio_queue' = audio_queue
          /\ discarded' = discarded
          /\ spc' = "end"
  /\ UNCHANGED <<persVars, cacheVars, is_processing, worker_running, speech_thread, wstate,
                 witem, nextId, rendered, run, calls, obs, lastDone,
                 stops, stopSnap, stopFlight, stopRendered, stopNextId,
                 cacheOpVars, cbTasks, called, failed>>

\* what a call has emitted so far: yields, on_sentence calls, enqueues
Emitted(r) == <<Len(obs[r].yielded), Len(obs[r].sentenced), Len(obs[r].enq)>>

\* stop_end that also tells the worker loop to end
stop_end_halting ==
  /\ spc = "end"
  /\ spc' = "idle"
  /\ is_processing' = FALSE
  /\ worker_running' = FALSE
  /\ UNCHANGED <<persVars, cacheVars, audio_queue, speech_thread, wstate, witem, nextId,
                 rendered, run, calls, lastDone, obs,
                 stops, stopSnap, stopFlight, stopRendered, stopNextId,
                 cacheOpVars, queueObs>>

\* streaming_pipeline.py lines 144-157: the flag clears and stop() returns
stop_end ==
  /\ spc = "end"
  /\ spc' = "idle"
  /\ is_processing' = FALSE
  /\ obs' = [r \in Runs |->
               IF run[r].pc \in {"stream", "emit", "emitted", "flush", "flushed"}
               THEN [obs[r] EXCEPT !.mark = Emitted(r)]
               ELSE obs[r]]
  /\ UNCHANGED <<persVars, cacheVars, ttsVars, run, calls, lastDone,
                 stops, stopSnap, stopFlight, stopRendered, stopNextId,
                 cacheOpVars, queueObs>>

\* ------------------------------------------------------------------ environment
\* main_window.py lines 242-252: set_humor, set_honesty, update_system_instruction
on_personality_changed(h) ==
  /\ h # humor
  /\ humor' = Clamp(h)
  /\ honesty' = Clamp(honesty)
  /\ sysInstr' = SystemInstruction(Clamp(h), Clamp(honesty))
  /\ UNCHANGED <<cacheVars, is_processing, ttsVars, run, calls, stopVars, cacheOpVars, queueObs, obs, lastDone>>

\* ResponseCache.enable
enable ==
  /\ ~enabled
  /\ enabled' = TRUE
  /\ UNCHANGED <<persVars, cache, is_processing, ttsVars, run, calls, stopVars, cacheOpVars, queueObs, obs,
                 lastDone>>

\* ResponseCache.disable
disable ==
  /\ enabled
  /\ enabled' = FALSE
  /\ UNCHANGED <<persVars, cache, is_processing, ttsVars, run, calls, stopVars, cacheOpVars, queueObs, obs,
                 lastDone>>

\* ------------------------------------------------------------------ cache operations
\* what a direct cache operation leaves alone
pipeVars == <<persVars, is_processing, ttsVars, run, calls, stopVars, obs, lastDone,
              queueObs>>

\* the (query, fingerprint) that stored the entry under key k, if c holds one
WriterOf(c, k) == IF CacheIndex(c, k) # 0 THEN writer[k] ELSE NoneVal

\* ResponseCache.__init__, lines 20-22: the cache is built with another capacity
cache_init(m) ==
  /\ ops = 0
  /\ max_size = MaxCacheSize
  /\ m # max_size
  /\ max_size' = m
  /\ cache' = <<>>
  /\ enabled' = TRUE
  /\ UNCHANGED <<pipeVars, cpc, cop, ops, useTime, writer, written, atDisable, offOps>>

\* ResponseCache.get, lines 52-62
cache_get(q, ph) ==
  /\ cpc = "idle"
  /\ ops < MaxOps
  /\ LET g == CacheGet(cache, enabled, q, ph)
         k == HashQuery(q, ph)
         present == enabled /\ CacheIndex(cache, k) # 0
     IN /\ cache' = g.cache
        /\ cop' = [name |-> "get", q |-> q, ph |-> ph, val |-> g.val, before |-> cache,
                   wasEnabled |-> enabled,
                   prev |-> IF enabled THEN WriterOf(cache, k) ELSE NoneVal,
                   shield |-> NoneVal, evicted |-> NoneVal]
        /\ useTime' = IF present THEN [useTime EXCEPT ![k] = ops + 1] ELSE useTime
  /\ ops' = ops + 1
  /\ offOps' = IF enabled THEN offOps ELSE offOps + 1
  /\ UNCHANGED <<pipeVars, enabled, max_size, cpc, writer, written, atDisable>>

\* ResponseCache.set, lines 73-80: nothing when disabled, else the entry is stored
cache_set_store(q, response, ph) ==
  /\ cpc = "idle"
  /\ ops < MaxOps
  /\ ops' = ops + 1
  /\ LET k == HashQuery(q, ph) IN
     /\ cop' = [name |-> "set", q |-> q, ph |-> ph, val |-> response, before |-> cache,
                wasEnabled |-> enabled,
                prev |-> IF enabled THEN WriterOf(cache, k) ELSE NoneVal,
                shield |-> IF cop.name = "get" /\ cop.wasEnabled /\ cop.prev # NoneVal
                           THEN HashQuery(cop.q, cop.ph) ELSE NoneVal,
                evicted |-> NoneVal]
     /\ IF ~enabled
        THEN /\ offOps' = offOps + 1
             /\ UNCHANGED <<cache, cpc, useTime, writer, written>>
        ELSE /\ cache' = CacheStore(cache, q, response, ph)
             /\ cpc' = "evict"
             /\ useTime' = [useTime EXCEPT ![k] = ops + 1]
             /\ writer' = [writer EXCEPT ![k] = <<q, ph>>]
             /\ written' = [written EXCEPT ![NormPair(q, ph)] = response]
             /\ offOps' = offOps
  /\ UNCHANGED <<pipeVars, enabled, max_size, atDisable>>

\* cache_set_evict without the eviction
cache_set_evict_skipped ==
  /\ cpc = "evict"
  /\ cpc' = "idle"
  /\ UNCHANGED <<pipeVars, cache, cop, written, enabled, max_size, ops, useTime, writer,
                 atDisable, offOps>>

\* ResponseCache.set, lines 83-84: the oldest entry goes if the cache is over its limit
cache_set_evict ==
  /\ cpc = "evict"
  /\ cpc' = "idle"
  /\ IF Len(cache) > max_size
     THEN /\ cache' = Tail(cache)
          /\ cop' = [cop EXCEPT !.evicted = Head(cache).k]
          /\ written' = [p \in DOMAIN written |->
                           IF HashQuery(p[1], p[2]) = Head(cache).k THEN NoneVal
                           ELSE written[p]]
     ELSE UNCHANGED <<cache, cop, written>>
  /\ UNCHANGED <<pipeVars, enabled, max_size, ops, useTime, writer, atDisable, offOps>>

\* ResponseCache.clear, lines 86-88
cache_clear ==
  /\ cpc = "idle"
  /\ ops < MaxOps
  /\ ops' = ops + 1
  /\ cache' = <<>>
  /\ cop' = [NoOp EXCEPT !.name = "clear", !.before = cache, !.wasEnabled = enabled]
  /\ written' = [p \in DOMAIN written |-> NoneVal]
  /\ atDisable' = IF enabled THEN atDisable ELSE <<>>
  /\ UNCHANGED <<pipeVars, enabled, max_size, cpc, useTime, writer, offOps>>

\* ResponseCache.enable, lines 98-100
cache_enable ==
  /\ cpc = "idle"
  /\ ops < MaxOps
  /\ ~enabled
  /\ ops' = ops + 1
  /\ enabled' = TRUE
  /\ cop' = [NoOp EXCEPT !.name = "enable", !.before = cache, !.wasEnabled = enabled]
  /\ UNCHANGED <<pipeVars, cache, max_size, cpc, useTime, writer, written, atDisable, offOps>>

\* ResponseCache.disable, lines 102-104
cache_disable ==
  /\ cpc = "idle"
  /\ ops < MaxOps
  /\ enabled
  /\ ops' = ops + 1
  /\ enabled' = FALSE
  /\ cop' = [NoOp EXCEPT !.name = "disable", !.before = cache, !.wasEnabled = enabled]
  /\ atDisable' = cache
  /\ offOps' = 0
  /\ UNCHANGED <<pipeVars, cache, max_size, cpc, useTime, writer, written>>

\* ------------------------------------------------------------------ specification
\* the steps of at most limit process_query calls in the slots R, on queries of Q, each
\* fed at most most chunks of C
Pipeline(R, Q, C, limit, most) ==
  \/ \E r \in R, q \in Q : process_query_start(r, q, limit)
  \/ \E r \in R : process_query_hit(r)
  \/ \E r \in R : process_query_hit_yield(r)
  \/ \E r \in R : process_query_update_instruction(r)
  \/ \E r \in R, chunk \in C : generate_stream_chunk(r, chunk, most)
  \/ \E r \in R : generate_stream_end(r)
  \/ \E r \in R : generate_stream_error(r)
  \/ \E r \in R : process_query_yield(r)
  \/ \E r \in R : process_query_on_sentence(r)
  \/ \E r \in R : process_query_flush(r)
  \/ \E r \in R : process_query_flush_sentence(r)
  \/ \E r \in R : process_query_cache_set(r)
  \/ \E r \in R : process_query_on_complete(r)
  \/ \E r \in R : process_query_except(r)
  \/ \E r \in R : process_query_raise(r)
  \/ \E r \in R : speak_async_check(r)
  \/ \E r \in R : speak_async_start(r)
  \/ \E r \in R : speak_async_put(r)

Worker ==
  \/ \E w \in Runs : worker_get(w)
  \/ \E w \in Runs : worker_speak(w)
  \/ \E w \in Runs : worker_done(w)

Stop ==
  \/ stop_begin
  \/ stop_check
  \/ stop_get
  \/ stop_end

Environment ==
  \/ \E h \in HumorValues : on_personality_changed(h)
  \/ enable
  \/ disable

\* Concurrent process_query calls, the speech worker(s) and stop(), on one query.
Next ==
  \/ Pipeline(Runs, {<<"q">>}, SpeechChunkValues, MaxCalls, MaxChunks)
  \/ Worker
  \/ Stop

Spec == Init /\ [][Next]_vars

\* process_query calls one after another on one query, with the personality and the
\* cache switch changing under them.
RunNext ==
  \/ Pipeline({1}, {<<"q">>}, RunChunkValues, RunCalls, RunChunks)
  \/ Environment

RunSpec == Init /\ [][RunNext]_vars

\* process_query calls one after another on two queries.
RepeatNext ==
  \/ Pipeline({1}, Queries, Chunks, RepeatCalls, MaxChunks)

RepeatSpec == Init /\ [][RepeatNext]_vars

\* One cache-miss process_query call that ends normally, on every chunking of its text.
SegmentNext ==
  \/ process_query_start(1, <<"q">>, SegCalls)
  \/ process_query_update_instruction(1)
  \/ \E chunk \in SegChunkValues : generate_stream_chunk(1, chunk, SegChunks)
  \/ generate_stream_end(1)
  \/ process_query_yield(1)
  \/ process_query_on_sentence(1)
  \/ process_query_flush(1)
  \/ process_query_flush_sentence(1)
  \/ process_query_cache_set(1)
  \/ process_query_on_complete(1)
  \/ speak_async_check(1)
  \/ speak_async_start(1)
  \/ speak_async_put(1)

SegmentSpec == Init /\ [][SegmentNext]_vars

\* process_query calls that run at the same time on one ResponseCache, built with any
\* max_size, the statements of get and set taken one at a time.
ConcurrentNext ==
  \/ \E m \in 0..MaxCacheSize : calls = 0 /\ cache_init(m)
  \/ \E r \in Runs, q \in ConcQueries : process_query_begin(r, q, ConcCalls)
  \/ \E r \in Runs : get_contains(r)
  \/ \E r \in Runs : get_move_to_end(r)
  \/ \E r \in Runs : get_read(r)
  \/ \E r \in Runs : process_query_hit(r)
  \/ \E r \in Runs : process_query_hit_yield(r)
  \/ \E r \in Runs : process_query_update_instruction(r)
  \/ \E r \in Runs, chunk \in SpeechChunkValues : generate_stream_chunk(r, chunk, MaxChunks)
  \/ \E r \in Runs : generate_stream_end(r)
  \/ \E r \in Runs : process_query_yield(r)
  \/ \E r \in Runs : process_query_on_sentence(r)
  \/ \E r \in Runs : process_query_flush(r)
  \/ \E r \in Runs : process_query_flush_sentence(r)
  \/ \E r \in Runs : set_assign(r)
  \/ \E r \in Runs : set_move_to_end(r)
  \/ \E r \in Runs : set_len(r)
  \/ \E r \in Runs : set_popitem(r)
  \/ \E r \in Runs : process_query_on_complete(r)
  \/ \E r \in Runs : process_query_except(r)
  \/ \E r \in Runs : process_query_raise(r)
  \/ \E r \in Runs : speak_async_check(r)
  \/ \E r \in Runs : speak_async_start(r)
  \/ \E r \in Runs : speak_async_put(r)

ConcurrentSpec == Init /\ [][ConcurrentNext]_vars

\* process_query calls one after another, with callbacks that may raise and a caller
\* that may close the sequence after any unit.
CallerNext ==
  \/ Pipeline({1}, {<<"q">>}, SpeechChunkValues, CallerCalls, MaxChunks)
  \/ process_query_on_start_raise(1, <<"q">>, CallerCalls)
  \/ process_query_hit_raise(1)
  \/ process_query_on_sentence_raise(1)
  \/ process_query_on_complete_raise(1)
  \/ abandon(1)

CallerSpec == Init /\ [][CallerNext]_vars

\* The speech queue used directly by one caller, with a renderer and a player that may
\* fail, and stop().
SpeechNext ==
  \/ \E text \in SpeakTexts, withCallback \in BOOLEAN : speak_call(1, text, withCallback)
  \/ speak_async_check(1)
  \/ speak_async_start(1)
  \/ speak_async_put(1)
  \/ worker_get(1)
  \/ worker_speak(1)
  \/ worker_speak_fail(1)
  \/ worker_done(1)
  \/ worker_play_fail(1)
  \/ Stop

SpeechSpec == Init /\ [][SpeechNext]_vars

\* the worker thread is scheduled again and again, and every call it makes returns
WorkerFairness ==
  WF_vars(worker_get(1) \/ worker_speak(1) \/ worker_speak_fail(1) \/ worker_done(1)
          \/ worker_play_fail(1))

\* stop() runs to its end
StopFairness == WF_vars(stop_check \/ stop_get \/ stop_end)

SpeechFairSpec == SpeechSpec /\ WorkerFairness /\ StopFairness

\* The cache used directly: any sequence of get, set, clear, enable and disable.
CacheNext ==
  \/ \E m \in 0..MaxCacheSize : cache_init(m)
  \/ \E p \in CachePairs : cache_get(p[1], p[2])
  \/ \E p \in CachePairs, response \in Responses : cache_set_store(p[1], response, p[2])
  \/ cache_set_evict
  \/ cache_clear
  \/ cache_enable
  \/ cache_disable

CacheSpec == Init /\ [][CacheNext]_vars

\* ------------------------------------------------------------------ claims
AliveWorkers == {w \in Runs : Alive(w)}

Speaking == {w \in Runs : wstate[w] = "speaking"}

\* C1: the voice-rendering service sees the tasks in the order they were put on the
\* queue (a task's id is its position in the global enqueue order), for every
\* interleaving of the producers with the worker.
C1_RenderInEnqueueOrder ==
  \A i, j \in 1..Len(rendered) : i < j => rendered[i] < rendered[j]

\* C2: at most one utterance is being rendered or played at any time (at most one
\* worker is inside speak()), also when several producers call speak_async before a
\* worker runs.
C2_OneUtteranceAtATime == Cardinality(Speaking) <= 1

\* C3: once stop() has returned while a call was streaming or flushing, that call
\* yields nothing more, calls on_sentence no more and enqueues nothing more.
C3_NoEmissionAfterStop ==
  \A r \in Runs : obs[r].mark # <<>> => Emitted(r) = obs[r].mark

RenderedSinceStop == {rendered[i] : i \in (stopRendered + 1)..Len(rendered)}

\* C4: of the tasks enqueued before stop() began, the only one rendered from then on
\* is the one in flight (at most one); every task that was in the queue when stop()
\* began is never rendered; and when stop() leaves its loop the queue holds none of
\* them.  Stated for the behaviours with a single worker.
C4_StopDiscardsQueued ==
  (stops > 0 /\ Cardinality(AliveWorkers) <= 1) =>
    /\ {id \in RenderedSinceStop : id <= stopNextId} \subseteq stopFlight
    /\ Cardinality({id \in RenderedSinceStop : id <= stopNextId}) <= 1
    /\ \A i \in 1..Len(rendered) : rendered[i] \notin stopSnap
    /\ spc = "end" => \A id \in QueuedIds : id > stopNextId

RECURSIVE Flatten(_)
\* the texts of a sequence, concatenated
Flatten(ss) == IF ss = <<>> THEN <<>> ELSE Head(ss) \o Flatten(Tail(ss))

\* a text without its whitespace
NoWhitespace(s) == SelectSeq(s, LAMBDA c : c \notin Whitespace)

\* every sentence unit of the response went to the caller, to on_sentence and to the
\* speech queue, and nothing of the response is left out
AllEmitted(r) ==
  /\ run[r].sents = <<>>
  /\ obs[r].sentenced = obs[r].yielded
  /\ obs[r].enq = obs[r].yielded
  /\ NoWhitespace(Flatten(obs[r].yielded)) = NoWhitespace(run[r].full)

\* the entry a call's cache write leaves behind, under the fingerprint taken at its start
OwnEntry(r) == [k |-> HashQuery(run[r].query, run[r].phash), v |-> run[r].full]

\* C5 as stated: a cache-miss call whose stream ended without error has written the
\* full response into the cache under (query, fingerprint at the start), and
\* on_complete has fired exactly once, after every sentence unit and after the write.
C5_CompleteHasWritten ==
  \A r \in Runs : obs[r].outcome = "complete" =>
    /\ cache # <<>> /\ cache[Len(cache)] = OwnEntry(r)
    /\ obs[r].complete = 1
    /\ AllEmitted(r)

\* C5 as amended: the call has made its cache.set call before on_complete, which has
\* fired exactly once and after every sentence unit; the set stored the full response
\* as the most recent entry under (query, fingerprint at the start) if the cache was
\* enabled then, and changed nothing if it was disabled.
C5_CompleteAfterCacheSet ==
  \A r \in Runs :
    /\ obs[r].outcome = "complete" =>
         /\ obs[r].setDone
         /\ obs[r].setEnabled => (cache # <<>> /\ cache[Len(cache)] = OwnEntry(r))
         /\ ~obs[r].setEnabled => ~obs[r].setChanged
         /\ obs[r].complete = 1
         /\ AllEmitted(r)
    /\ (obs[r].complete > 0 /\ ~obs[r].genFailed /\ run[r].cb = 0) =>
         obs[r].outcome = "complete"

\* a call completed with a sentence and a flushed residual, with the cache enabled, after
\* the personality changed under it
C5_Witness ==
  \E r \in Runs :
    /\ obs[r].outcome = "complete"
    /\ obs[r].setEnabled
    /\ obs[r].yielded = << <<"a", ".">>, <<"a">> >>
    /\ run[r].full = <<"a", ".", " ", "a">>
    /\ run[r].phash # Fingerprint(humor, honesty)

\* C6: when the generation service fails, on_complete is called exactly once and before
\* the exception reaches the caller, and the exception does reach the caller.
C6_ErrorCompletesThenRaises ==
  \A r \in Runs :
    /\ obs[r].genFailed => run[r].pc \in {"except", "raise", "done"}
    /\ (obs[r].genFailed /\ run[r].pc = "except") => obs[r].complete = 0
    /\ (obs[r].genFailed /\ run[r].pc = "raise") => obs[r].complete = 1
    /\ (obs[r].genFailed /\ run[r].pc = "done") =>
         (obs[r].outcome = "error" /\ obs[r].complete = 1)

\* the service failed after a chunk had arrived, and the exception has reached the caller
C6_Witness ==
  \E r \in Runs : obs[r].outcome = "error" /\ run[r].full # <<>> /\ obs[r].complete = 1

\* C7: a call that ends in Error has left the cache, contents and recency order, as
\* it was: no step of the call changed it.
C7_ErrorLeavesCache ==
  \A r \in Runs : obs[r].outcome = "error" => ~obs[r].touched

\* C8: when the cache holds a response for (query, fingerprint), the call yields
\* that text as its one sentence unit, enqueues one task with that text and makes no
\* call to the generation service.
C8_CacheHitTransition ==
  \A r \in Runs : (run[r].pc = "done" /\ obs[r].found) =>
    /\ obs[r].yielded = <<obs[r].expect>>
    /\ obs[r].enq = <<obs[r].expect>>
    /\ obs[r].gen = 0

CallbackPending(r) ==
  \/ \E i \in 1..Len(audio_queue) : audio_queue[i].cb = run[r].call
  \/ \E w \in Runs : wstate[w] \in {"got", "speaking"} /\ witem[w].cb = run[r].call

\* C9: on a cache-hit call on_complete fires exactly once: once the call has handed
\* it to speak_async it has either fired once or is still held by the queue or the
\* worker, so that it will fire.
C9_HitCompletesOnce ==
  \A r \in Runs : obs[r].outcome = "hit" =>
    \/ obs[r].complete = 1
    \/ obs[r].complete = 0 /\ CallbackPending(r)

\* C10: a call that follows a call that completed with response R for the same query and
\* fingerprint, and finds R in the enabled cache, yields exactly R and makes no call
\* to the generation service.
C10_RepeatServedFromCache ==
  \A r \in Runs : (run[r].pc = "done" /\ obs[r].prior) =>
    /\ obs[r].yielded = <<obs[r].expect>>
    /\ obs[r].gen = 0

\* ------------------------------------------------------------------ cache claims
\* the cache key of the last direct operation
OpKey == HashQuery(cop.q, cop.ph)

\* two queries differ at most in letter case and in leading and trailing whitespace
SameQuery(a, b) == Strip(Lower(a)) = Strip(Lower(b))

\* C11: with the cache enabled, a get of (query, fingerprint) returns exactly the
\* response last set for that (query, fingerprint), as long as the entry has not been
\* evicted or cleared since (a later set for the same pair overwrites the response).
C11_RoundTrip ==
  (cop.name = "get" /\ cop.wasEnabled /\ written[NormPair(cop.q, cop.ph)] # NoneVal) =>
    cop.val = written[NormPair(cop.q, cop.ph)]

\* the entries of the cache before the last operation that are gone after it
Gone == {i \in 1..Len(cop.before) : CacheIndex(cache, cop.before[i].k) = 0}

\* C12: after every completed operation the cache holds at most max_size entries;
\* within a set it holds at most max_size + 1; a set evicts at most one entry.
C12_Capacity ==
  /\ Len(cache) <= max_size + 1
  /\ cpc = "idle" => Len(cache) <= max_size
  /\ (cpc = "idle" /\ cop.name = "set") => Cardinality(Gone) <= 1

\* a set found the cache full and has evicted an entry
C12_Witness ==
  cpc = "idle" /\ cop.name = "set" /\ cop.evicted # NoneVal /\ Len(cache) = max_size

\* the cache order is the order of last use; the entry a set evicts is the one used
\* longest ago and is not the entry just stored; a successful get leaves its entry
\* most recently used
LruOrder ==
  /\ \A i, j \in 1..Len(cache) : i < j => useTime[cache[i].k] < useTime[cache[j].k]
  /\ cop.evicted # NoneVal =>
       /\ \A i \in 1..Len(cache) : useTime[cop.evicted] < useTime[cache[i].k]
       /\ max_size >= 1 => cop.evicted # OpKey
  /\ (cop.name = "get" /\ cop.val # NoneVal) => cache[Len(cache)].k = OpKey

\* C13 as stated: strict LRU eviction, and the entry of a successful get is not the
\* one the next set evicts.
C13_StrictLru ==
  /\ LruOrder
  /\ (cop.shield # NoneVal /\ cop.evicted # NoneVal) => cop.evicted # cop.shield

\* C13 as amended: strict LRU eviction, and the entry of a successful get is not the
\* one the next set evicts when the cache held another entry.
C13_LruShieldsAmongOthers ==
  /\ LruOrder
  /\ (cop.shield # NoneVal /\ cop.evicted # NoneVal /\ Len(cop.before) >= 2) =>
       cop.evicted # cop.shield

\* the least recently used entry was read, and the set that followed evicted the other
C13_Witness ==
  /\ cpc = "idle" /\ cop.evicted # NoneVal /\ cop.shield # NoneVal
  /\ Len(cop.before) >= 2
  /\ CacheIndex(cache, cop.shield) # 0
  /\ ops = 4 /\ useTime[cop.evicted] = 2 /\ useTime[cop.shield] = 3

\* the response the cache c holds under key k, None if it holds none
Stored(c, k) == IF CacheIndex(c, k) # 0 THEN c[CacheIndex(c, k)].v ELSE NoneVal

\* C14: while the cache is disabled a get returns None and neither a get nor a set
\* changes the entries or their order; when the cache is enabled again it is as it was
\* when it was disabled, and a get returns what is stored.  (clear() empties the cache
\* whether it is enabled or not.)
C14_DisabledCache ==
  /\ (cop.name = "get" /\ ~cop.wasEnabled) => (cop.val = NoneVal /\ cache = cop.before)
  /\ (cop.name = "set" /\ ~cop.wasEnabled) => cache = cop.before
  /\ ~enabled => cache = atDisable
  /\ cop.name = "enable" => cache = atDisable
  /\ (cop.name = "get" /\ cop.wasEnabled) => cop.val = Stored(cop.before, OpKey)

\* the cache was disabled while it held an entry, saw a get or a set, was enabled again,
\* and the get that followed returned the response stored before
C14_Witness ==
  /\ cop.name = "get" /\ cop.wasEnabled /\ cop.val # NoneVal
  /\ cop.before = atDisable
  /\ offOps > 0

\* C15: an entry stored for a query under one fingerprint is neither read nor
\* overwritten by an operation for the same query under a different fingerprint.
C15_FingerprintNamespace ==
  (cop.name \in {"get", "set"} /\ cop.prev # NoneVal /\ SameQuery(cop.prev[1], cop.q)) =>
    cop.prev[2] = cop.ph

\* a get missed while the cache held an entry for the same query under the other
\* fingerprint
C15_Witness ==
  /\ cop.name = "get" /\ cop.wasEnabled /\ cop.val = NoneVal
  /\ \E i \in 1..Len(cache) :
       /\ SameQuery(writer[cache[i].k][1], cop.q)
       /\ writer[cache[i].k][2] # cop.ph

\* C16: a get under one fingerprint never returns a response that a set stored under a
\* different fingerprint, whatever the two queries are.
C16_NoSharedEntry ==
  (cop.name = "get" /\ cop.val # NoneVal /\ cop.prev # NoneVal) => cop.prev[2] = cop.ph

\* C17: under one fingerprint, queries that differ only in letter case and boundary
\* whitespace address one entry (a get with one returns what a set with the other
\* stored), and queries whose normalized forms differ never touch each other's entry.
C17_QueryNormalization ==
  /\ (cop.name \in {"get", "set"} /\ cop.prev # NoneVal /\ cop.prev[2] = cop.ph) =>
       SameQuery(cop.prev[1], cop.q)
  /\ (cop.name = "get" /\ cop.wasEnabled) =>
       \A i \in 1..Len(cop.before) :
         LET w == writer[cop.before[i].k] IN
         (w[2] = cop.ph /\ SameQuery(w[1], cop.q)) => cop.val = cop.before[i].v

\* a get returned the response that a set stored with another spelling of the query
C17_Witness ==
  /\ cop.name = "get" /\ cop.val # NoneVal /\ cop.prev # NoneVal
  /\ cop.prev[1] # cop.q /\ cop.prev[2] = cop.ph

\* ------------------------------------------------------------------ segmentation claims
\* C18: whatever the chunks a text arrives in, the sentence units of a call that ends
\* normally are the units the same text gives when it arrives as one chunk.
C18_ChunkingIndependent ==
  \A r \in Runs : obs[r].outcome = "complete" =>
    obs[r].yielded = OneChunkUnits(run[r].full)

RECURSIVE JoinUnits(_)
\* the units joined by single spaces
JoinUnits(ss) ==
  IF ss = <<>> THEN <<>>
  ELSE IF Len(ss) = 1 THEN Head(ss)
  ELSE Head(ss) \o <<" ">> \o JoinUnits(Tail(ss))

RECURSIVE Collapse(_)
\* every run of whitespace becomes a single space
Collapse(s) ==
  IF Len(s) < 2 THEN s
  ELSE IF s[1] \in Whitespace /\ s[2] \in Whitespace THEN Collapse(Tail(s))
  ELSE <<s[1]>> \o Collapse(Tail(s))

\* whitespace normalization: runs collapsed, the ends trimmed
Normalize(s) == Strip(Collapse(s))

\* C19: the units of a cache-miss call that ends normally, joined by single spaces,
\* are the concatenation of its chunks up to whitespace normalization.
C19_UnitsReconstructText ==
  \A r \in Runs : obs[r].outcome = "complete" =>
    Normalize(JoinUnits(obs[r].yielded)) = Normalize(run[r].full)

\* a sentence unit: not empty, no whitespace at either end
Trimmed(u) == u # <<>> /\ Strip(u) = u

\* C20: everything a call yields, passes to on_sentence or puts on the speech queue is
\* a non-empty text without leading or trailing whitespace.
C20_UnitsTrimmed ==
  \A r \in Runs :
    /\ \A i \in 1..Len(obs[r].yielded) : Trimmed(obs[r].yielded[i])
    /\ \A i \in 1..Len(obs[r].sentenced) : Trimmed(obs[r].sentenced[i])
    /\ \A i \in 1..Len(obs[r].enq) : Trimmed(obs[r].enq[i])

\* ------------------------------------------------------------------ speech queue claims
RenderedIds == {rendered[i] : i \in 1..Len(rendered)}

\* the number of times x occurs in seq
Count(seq, x) == Cardinality({i \in 1..Len(seq) : seq[i] = x})

\* the worker has taken task i off the queue and is through with it
Finished(i) == i \in RenderedIds /\ i \notin InFlight

\* C22: the callback of a task the worker has dequeued is invoked exactly once, when
\* the worker is through with the task, whether the rendering and the playback succeed
\* or fail; a task without a callback has none invoked; no failure ends the worker.
C22_CallbackOncePerTask ==
  /\ \A i \in 1..nextId :
       /\ (i \in cbTasks /\ Finished(i)) => Count(called, i) = 1
       /\ (i \notin cbTasks \/ ~Finished(i)) => Count(called, i) = 0
  /\ \A w \in Runs : wstate[w] # "stopped"
  /\ nextId > 0 => Alive(speech_thread)

\* the rendering of one task with a callback failed, the playback of another failed, a
\* third was played to the end, and each callback has run once
C22_Witness ==
  \E i, j, k \in cbTasks :
    /\ i \in failed /\ j \in failed /\ i # j /\ k \notin failed
    /\ Finished(i) /\ Finished(j) /\ Finished(k)
    /\ Count(called, i) = 1 /\ Count(called, j) = 1 /\ Count(called, k) = 1

\* C23: a task on the queue is in the end rendered, unless a stop() discards it, also
\* after the rendering or the playback of earlier tasks has failed.
C23_QueuedEventuallyRendered ==
  \A i \in 1..MaxSpeakCalls : (i \in QueuedIds) ~> (i \in RenderedIds \/ i \in discarded)

\* a task was rendered after the rendering or the playback of an earlier task had failed
C23_Witness ==
  \E i, j \in RenderedIds : i < j /\ i \in failed /\ j \notin failed /\ Finished(j)

Held == {witem[w].id : w \in {x \in Runs : wstate[x] = "got"}}

\* in how many of the places a task can be - on the queue, held by a worker, rendered,
\* discarded - task i is
Places(i) ==
  Count(<<i \in QueuedIds, i \in Held, i \in RenderedIds, i \in discarded>>, TRUE)

\* C26: every task put on the queue is in exactly one place: still queued, held by a
\* worker, rendered (once), or discarded by stop(); none is rendered twice or both
\* rendered and discarded, and nothing is rendered that was not put on the queue.
C26_ConsumedOnce ==
  /\ \A i \in 1..nextId : Places(i) = 1 /\ Count(rendered, i) <= 1
  /\ RenderedIds \cup discarded \cup Held \cup QueuedIds \subseteq 1..nextId
  /\ Cardinality(QueuedIds) = Len(audio_queue)

\* one task was rendered and another was discarded by stop()
C26_Witness ==
  RenderedIds # {} /\ discarded # {}

\* ------------------------------------------------------------------ buffer claims
\* the text has a terminator with whitespace right after it
HasBoundary(s) ==
  \E i \in 1..(Len(s) - 1) : s[i] \in Terminators /\ s[i + 1] \in Whitespace

\* the text ends with a terminator
EndsTerminated(s) == s # <<>> /\ s[Len(s)] \in Terminators

\* the part of the accumulated stream that lies before the sentence buffer
Consumed(r) == SubSeq(run[r].full, 1, Len(run[r].full) - Len(run[r].sbuf))

\* C27: once a chunk has been processed the sentence buffer has no terminator followed
\* by whitespace and does not end with a terminator; it is the end of the accumulated
\* stream, and what lies before it is the units emitted so far with the whitespace
\* around them, the last one closed by its terminator and the whitespace after it.
C27_BufferUnterminated ==
  \A r \in Runs : run[r].pc \in {"stream", "emit"} =>
    /\ ~HasBoundary(run[r].sbuf)
    /\ ~EndsTerminated(run[r].sbuf)
    /\ Len(run[r].sbuf) <= Len(run[r].full)
    /\ run[r].full = Consumed(r) \o run[r].sbuf
    /\ NoWhitespace(Consumed(r)) = NoWhitespace(Flatten(obs[r].yielded \o run[r].sents))
    /\ Consumed(r) # <<>> =>
         (EndsTerminated(RStrip(Consumed(r))) /\ obs[r].yielded \o run[r].sents # <<>>)

\* a unit has been emitted and the buffer holds a terminator inside unterminated text
C27_Witness ==
  /\ run[1].pc = "stream" /\ run[1].n = 2
  /\ obs[1].yielded # <<>>
  /\ \E i \in 1..Len(run[1].sbuf) : run[1].sbuf[i] \in Terminators

RECURSIVE UnitEnds(_, _, _)
\* the index in text of the last character of each unit, the units lying in text one
\* after another with only whitespace between them, from index pos on
UnitEnds(text, units, pos) ==
  IF units = <<>> THEN <<>>
  ELSE LET e == WsRunEnd(text, pos) + Len(Head(units)) IN
       <<e>> \o UnitEnds(text, Tail(units), e)

\* C28: in a cache-miss call that ends normally no unit ends at a terminator that has a
\* non-whitespace character right after it in the full response.
C28_NoSplitBeforeText ==
  \A r \in Runs : obs[r].outcome = "complete" =>
    LET full == run[r].full
        ends == UnitEnds(full, obs[r].yielded, 0) IN
    \A i \in 1..Len(ends) :
      (ends[i] < Len(full) /\ full[ends[i]] \in Terminators) =>
        full[ends[i] + 1] \in Whitespace

\* ------------------------------------------------------------------ consistency claims
\* C30: a response that a call stored in the cache under a fingerprint was generated
\* with the system instruction of the personality that has this fingerprint, also when
\* the personality is changed while the call runs.
C30_FingerprintMatchesInstruction ==
  \A r \in Runs : (obs[r].setDone /\ obs[r].setEnabled) =>
    \A h \in HumorValues :
      run[r].phash = Fingerprint(h, honesty) => obs[r].instr = SystemInstruction(h, honesty)

\* ------------------------------------------------------------------ concurrency claims
\* C25: with two calls running at once on one cache, no statement of get or set fails,
\* a get returns the response stored under its own key, and when no call is running
\* the cache holds at most max_size entries.
C25_ConcurrentCacheSafe ==
  /\ \A r \in Runs : ~obs[r].cacheError
  /\ \A r \in Runs : run[r].cached # NoneVal => run[r].cached = obs[r].expect
  /\ (\A r \in Runs : run[r].pc \in {"idle", "done"}) => Len(cache) <= max_size

\* ------------------------------------------------------------------ caller claims
\* C21: when a call has ended - consumed to its end, served from the cache, or closed
\* by the caller after some unit - every unit it yielded was also passed to on_sentence
\* and put on the speech queue, once each and in the same order.
C21_FanOut ==
  \A r \in Runs :
    (run[r].pc = "done" /\ obs[r].outcome \in {"complete", "hit", "abandoned"}) =>
      /\ obs[r].sentenced = obs[r].yielded
      /\ obs[r].enq = obs[r].yielded

\* C29: when a call has ended, in whatever way, and no other call is active, the
\* is_processing flag is false.
C29_FlagClearedAtEnd ==
  (\A r \in Runs : run[r].pc \in {"idle", "done"}) => ~is_processing

====
